---- MODULE Spec2Model ----
(***************************************************************************)
(* Chained iteration over N sequences (jbelloncastro/multi_iterators).     *)
(*                                                                         *)
(* Two implementations are modelled:                                       *)
(*   "Tuple" - TupleIterator.h: a polymorphic StageHandler<I> placed in a  *)
(*             raw buffer, replaced in place on a stage transition;        *)
(*   "Multi" - MultiIterator.h: a pointer into an array of ranges plus an  *)
(*             element position.                                           *)
(*                                                                         *)
(* A position is an address.  Container i occupies the addresses           *)
(* addr .. addr+size-1, its end position is addr+size.  Two containers may *)
(* be adjacent in memory, so the end position of one may be the begin      *)
(* position of the next.  The element a reference designates is identified *)
(* by its address.                                                         *)
(***************************************************************************)
EXTENDS Integers, Sequences, FiniteSets, TLC

\* Largest number of stages of a chain.
MaxStages == 3
\* Largest number of elements of one stage.
MaxLen == 2

VARIABLES
    ranges,   \* MultiRange::_ranges: stage index (0..N-1) -> [first, last]
    impl,     \* which header the program is built from: "Tuple" or "Multi"
    it,       \* the cursors of the program: slot (1..2) -> iterator state
    pc,       \* position of the driver: "free", "test", "deref", "inc", "done",
              \* "aborted" (the process was killed), "stray" (the range pointer
              \* has left the array; the run is followed no further)
    out,      \* addresses of the elements the range-for loop has emitted
    adv,      \* slot -> number of pre-increments applied since its begin()
    lastop    \* the last operation applied: [op, k, ref]

vars == <<ranges, impl, it, pc, out, adv, lastop>>

Cursors == {1, 2}

----------------------------------------------------------------------------
(* Containers and iterate_over *)

\* Gap in addresses between the storage of two consecutive containers:
\* the containers are adjacent in memory (0) or apart (1).
Gaps == {0, 1}

std_begin(c) == c.addr
std_end(c) == c.addr + c.size

RECURSIVE Base(_, _, _)
Base(lens, gap, i) ==
    IF i = 0 THEN 1 ELSE Base(lens, gap, i - 1) + lens[i - 1] + gap

\* The containers a driver declares: sizes lens, laid out in memory with gap.
Containers(lens, gap) ==
    [i \in DOMAIN lens |-> [addr |-> Base(lens, gap, i), size |-> lens[i]]]

range(first, last) == [first |-> first, last |-> last]

iterate_over(containers) ==
    [i \in DOMAIN containers |->
        range(std_begin(containers[i]), std_end(containers[i]))]

NumStages(rs) == Cardinality(DOMAIN rs)
last_stage(rs) == NumStages(rs) - 1

Chains ==
    UNION { { iterate_over(Containers(lens, gap)) :
                lens \in [0 .. n - 1 -> 0 .. MaxLen], gap \in Gaps } :
            n \in 1 .. MaxStages }

\* Addresses of the elements of stage i, in order.
RECURSIVE AddrSeq(_, _)
AddrSeq(a, b) == IF a >= b THEN <<>> ELSE <<a>> \o AddrSeq(a + 1, b)
StageElems(rs, i) == AddrSeq(rs[i].first, rs[i].last)
StageSize(rs, i) == rs[i].last - rs[i].first

RECURSIVE ConcatFrom(_, _)
ConcatFrom(rs, i) ==
    IF i > last_stage(rs) THEN <<>> ELSE StageElems(rs, i) \o ConcatFrom(rs, i + 1)
\* The elements of the whole chain in stage order.
Concat(rs) == ConcatFrom(rs, 0)
Total(rs) == Len(Concat(rs))

\* Every address a stray read can produce.
AddrSpace(rs) == 0 .. rs[last_stage(rs)].last + 1

----------------------------------------------------------------------------
(* Outcomes of an operation: the cursor left behind, the reference         *)
(* returned (<<>> when none) and whether the process was killed.           *)

Ok(h, ref) == [h |-> h, ref |-> ref, fault |-> FALSE]
Fault(h) == [h |-> h, ref |-> <<>>, fault |-> TRUE]

----------------------------------------------------------------------------
(* TupleIterator.h *)

\* StageHandler<ValueType, I, ...>: the stage index is the type parameter I.
StageHandler(I, r) == [I |-> I, first |-> r.first, last |-> r.last, live |-> TRUE]

done(h) == h.first = h.last

get_element(h) == h.first

\* next_element stepping over two elements instead of one.
next_element_skip(h) == [h EXCEPT !.first = @ + 2]

next_element(h) == [h EXCEPT !.first = @ + 1]

\* operator!= without the dynamic_cast test: positions alone are compared.
Tuple_neq_nocast(h, o) == h.first # o.first \/ h.last # o.last

\* StageHandler::operator!=: the dynamic_cast fails when the stages differ.
Tuple_neq(h, o) ==
    IF h.I # o.I
    THEN TRUE
    ELSE h.first # o.first \/ h.last # o.last

\* handler.~handler_base(): the object's lifetime ends, its bytes stay.
destroy(h) == [h EXCEPT !.live = FALSE]

\* A virtual call through the buffer.  On an object whose destructor has run
\* the vtable pointer is either still the handler's (the call is dispatched
\* as before) or the base class's (the call aborts: pure virtual method).
VirtualCall(h) == IF h.live THEN {"dispatch"} ELSE {"dispatch", "pure_virtual"}

\* StageFactory<.., I, HasMoreStages, ..>: placement-new of stage I's handler
\* into the buffer, or nothing at all when no stage is left.
StageFactory(rs, I, hasMoreStages, storage) ==
    IF hasMoreStages THEN StageHandler(I, rs[I]) ELSE storage

\* next_stage that constructs the handler of the last stage right away.
next_stage_jump(rs, h) == StageHandler(NumStages(rs) - 1, rs[NumStages(rs) - 1])

next_stage(rs, h) ==
    LET hasMoreStages == h.I < NumStages(rs) - 1
    IN  StageFactory(rs, h.I + 1, hasMoreStages, h)

\* The two lines "handler.~handler_base(); handler.next_stage(...)".
Promote(rs, h) ==
    LET d == destroy(h)
    IN  { IF v = "dispatch" THEN Ok(next_stage(rs, d), <<>>) ELSE Fault(d) :
            v \in VirtualCall(d) }

\* Outcomes of "return handler.get_element()": reading a past-the-end position
\* yields a reference to whatever lies there, or kills the process.
Tuple_read(h) ==
    { IF v = "dispatch" THEN Ok(h, <<get_element(h)>>) ELSE Fault(h) :
        v \in VirtualCall(h) }
    \cup (IF done(h) THEN {Fault(h)} ELSE {})

\* iterator::operator++
\* operator++ without the "if( handler.done() )" test.
Tuple_preinc_nocheck(rs, h) == {Ok(next_element(h), <<>>)}

Tuple_preinc(rs, h) ==
    UNION { IF v = "pure_virtual" THEN {Fault(h)}
            ELSE IF done(h) THEN Promote(rs, h)
            ELSE {Ok(next_element(h), <<>>)} : v \in VirtualCall(h) }

\* iterator::operator*
Tuple_deref(rs, h) ==
    UNION { IF v = "pure_virtual" THEN {Fault(h)}
            ELSE IF done(h)
                 THEN UNION { IF p.fault THEN {p} ELSE Tuple_read(p.h) :
                                p \in Promote(rs, h) }
                 ELSE Tuple_read(h) : v \in VirtualCall(h) }

\* iterator::operator!= : a virtual call on the left handler.
Tuple_compare(h, o) ==
    { IF v = "pure_virtual" THEN "fault"
      ELSE IF Tuple_neq(h, o) THEN "neq" ELSE "eq" : v \in VirtualCall(h) }

\* begin() pre-advanced to the first non-empty stage (the last one if none).
Tuple_begin_eager(rs) ==
    LET S == {i \in DOMAIN rs : rs[i].first # rs[i].last \/ i = NumStages(rs) - 1}
        I == CHOOSE i \in S : \A j \in S : i <= j
    IN  StageHandler(I, rs[I])

Tuple_begin(rs) == StageHandler(0, rs[0])

\* end() without "last_range.first = last_range.last".
Tuple_end_nofix(rs) == StageHandler(NumStages(rs) - 1, rs[NumStages(rs) - 1])

Tuple_end(rs) ==
    LET last_range == [rs[last_stage(rs)] EXCEPT !.first = rs[last_stage(rs)].last]
    IN  StageHandler(last_stage(rs), last_range)

----------------------------------------------------------------------------
(* MultiIterator.h *)

Multi_iterator(r, e) == [range_it |-> r, element_it |-> e]

Multi_neq(a, b) ==
    a.range_it # b.range_it \/ a.element_it # b.element_it

\* The range pointer designates one of the chain's N ranges.
InArray(rs, r) == r \in DOMAIN rs

\* _range_it->begin() / _range_it->end(): past the array the read yields any
\* address, or kills the process.
range_begin(rs, r) == IF InArray(rs, r) THEN {rs[r].first} ELSE AddrSpace(rs)
range_end(rs, r) == IF InArray(rs, r) THEN {rs[r].last} ELSE AddrSpace(rs)

\* The range pointer is kept at most one past the array.
Bump(rs, r) == IF r < NumStages(rs) THEN r + 1 ELSE r

Multi_stray(rs, c) == IF InArray(rs, c.range_it) THEN {} ELSE {Fault(c)}

\* iterator::operator++
Multi_preinc(rs, c) ==
    UNION { IF c.element_it = e
            THEN { Ok(Multi_iterator(Bump(rs, c.range_it), b), <<>>) :
                     b \in range_begin(rs, Bump(rs, c.range_it)) }
                 \cup Multi_stray(rs, Multi_iterator(Bump(rs, c.range_it), c.element_it))
            ELSE { Ok([c EXCEPT !.element_it = @ + 1], <<>>) } :
            e \in range_end(rs, c.range_it) }
    \cup Multi_stray(rs, c)

\* Outcomes of "return *_element_it".
Multi_read(rs, c) ==
    {Ok(c, <<c.element_it>>)}
    \cup (IF InArray(rs, c.range_it)
             /\ c.element_it >= rs[c.range_it].first
             /\ c.element_it < rs[c.range_it].last
          THEN {} ELSE {Fault(c)})

\* iterator::operator*
Multi_deref(rs, c) ==
    UNION { IF c.element_it = e
            THEN UNION { Multi_read(rs, Multi_iterator(Bump(rs, c.range_it), b)) :
                           b \in range_begin(rs, Bump(rs, c.range_it)) }
            ELSE Multi_read(rs, c) :
            e \in range_end(rs, c.range_it) }
    \cup Multi_stray(rs, c)

Multi_begin(rs) == Multi_iterator(0, rs[0].first)

Multi_end(rs) == Multi_iterator(last_stage(rs), rs[last_stage(rs)].last)

----------------------------------------------------------------------------
(* The program: a chain, its cursors, and the operations a caller applies. *)

Impls == {"Tuple", "Multi"}

NoOp == [op |-> "none", k |-> 1, ref |-> <<>>]

Init ==
    /\ ranges \in Chains
    /\ impl \in Impls
    /\ it = [k \in Cursors |->
                IF impl = "Tuple" THEN Tuple_begin(ranges) ELSE Multi_begin(ranges)]
    /\ pc = "free"
    /\ out = <<>>
    /\ adv = [k \in Cursors |-> 0]
    /\ lastop = NoOp

\* Apply when every cursor shares one handler instead of owning its own.
Apply_shared(k, o, op) ==
    /\ it' = [j \in Cursors |-> o.h]
    /\ pc' = IF o.fault THEN "aborted" ELSE pc
    /\ lastop' = [op |-> op, k |-> k, ref |-> o.ref]
    /\ adv' = IF op = "inc" /\ ~o.fault THEN [adv EXCEPT ![k] = @ + 1] ELSE adv
    /\ UNCHANGED <<ranges, impl, out>>

\* The operation op on cursor k ended with outcome o.
Apply(k, o, op) ==
    /\ it' = [it EXCEPT ![k] = o.h]
    /\ pc' = IF o.fault THEN "aborted" ELSE pc
    /\ lastop' = [op |-> op, k |-> k, ref |-> o.ref]
    /\ adv' = IF op = "inc" /\ ~o.fault THEN [adv EXCEPT ![k] = @ + 1] ELSE adv
    /\ UNCHANGED <<ranges, impl, out>>

\* Caller obligation: an operation is applied only to a cursor unequal to end().
TupleNotEnd(k) == Tuple_neq(it[k], Tuple_end(ranges))
MultiNotEnd(k) == Multi_neq(it[k], Multi_end(ranges))

TupleInc(k) ==
    /\ impl = "Tuple" /\ pc = "free"
    /\ TupleNotEnd(k)
    /\ \E o \in Tuple_preinc(ranges, it[k]) : Apply(k, o, "inc")

TupleDeref(k) ==
    /\ impl = "Tuple" /\ pc = "free"
    /\ TupleNotEnd(k)
    /\ \E o \in Tuple_deref(ranges, it[k]) : Apply(k, o, "deref")

MultiInc(k) ==
    /\ impl = "Multi" /\ pc = "free"
    /\ MultiNotEnd(k)
    /\ \E o \in Multi_preinc(ranges, it[k]) : Apply(k, o, "inc")

MultiDeref(k) ==
    /\ impl = "Multi" /\ pc = "free"
    /\ MultiNotEnd(k)
    /\ \E o \in Multi_deref(ranges, it[k]) : Apply(k, o, "deref")

Next ==
    \E k \in Cursors :
        \/ TupleInc(k) \/ TupleDeref(k)
        \/ MultiInc(k) \/ MultiDeref(k)

Spec == Init /\ [][Next]_vars

----------------------------------------------------------------------------
(* The same program when the caller also takes fresh cursors: it = r.begin() *)
(* and it = r.end() assigned to a slot between the other operations.        *)

\* Slot k is assigned the cursor c that the call op returned.
Assign(k, c, op) ==
    /\ it' = [it EXCEPT ![k] = c]
    /\ lastop' = [op |-> op, k |-> k, ref |-> <<>>]
    /\ adv' = [adv EXCEPT ![k] = 0]
    /\ UNCHANGED <<ranges, impl, pc, out>>

TupleBegin(k) ==
    /\ impl = "Tuple" /\ pc = "free"
    /\ Assign(k, Tuple_begin(ranges), "begin")

TupleEnd(k) ==
    /\ impl = "Tuple" /\ pc = "free"
    /\ Assign(k, Tuple_end(ranges), "end")

MultiBegin(k) ==
    /\ impl = "Multi" /\ pc = "free"
    /\ Assign(k, Multi_begin(ranges), "begin")

MultiEnd(k) ==
    /\ impl = "Multi" /\ pc = "free"
    /\ Assign(k, Multi_end(ranges), "end")

CallNext ==
    \E k \in Cursors :
        \/ TupleInc(k) \/ TupleDeref(k) \/ TupleBegin(k) \/ TupleEnd(k)
        \/ MultiInc(k) \/ MultiDeref(k) \/ MultiBegin(k) \/ MultiEnd(k)

CallSpec == Init /\ [][CallNext]_vars

----------------------------------------------------------------------------
(* The drivers: for( int v : util::iterate_over(n0, n1, n2) ) printf(v).   *)
(* Slot 1 is the loop's cursor, slot 2 the end() it is compared with.      *)

LoopInit ==
    /\ ranges \in Chains
    /\ impl \in Impls
    /\ it = IF impl = "Tuple"
            THEN <<Tuple_begin(ranges), Tuple_end(ranges)>>
            ELSE <<Multi_begin(ranges), Multi_end(ranges)>>
    /\ pc = "test"
    /\ out = <<>>
    /\ adv = [k \in Cursors |-> 0]
    /\ lastop = NoOp

\* One step of the loop on its cursor: outcome o, then control goes to next.
LoopStep(o, op, next) ==
    /\ it' = [it EXCEPT ![1] = o.h]
    /\ pc' = IF o.fault THEN "aborted"
             ELSE IF impl = "Multi" /\ ~InArray(ranges, o.h.range_it) THEN "stray"
             ELSE next
    /\ lastop' = [op |-> op, k |-> 1, ref |-> o.ref]
    /\ adv' = IF op = "inc" /\ ~o.fault THEN [adv EXCEPT ![1] = @ + 1] ELSE adv
    /\ out' = IF op = "deref" /\ ~o.fault THEN out \o o.ref ELSE out
    /\ UNCHANGED <<ranges, impl>>

TupleLoopTest ==
    /\ impl = "Tuple" /\ pc = "test"
    /\ \E r \in Tuple_compare(it[1], it[2]) :
          pc' = IF r = "fault" THEN "aborted" ELSE IF r = "neq" THEN "deref" ELSE "done"
    /\ UNCHANGED <<ranges, impl, it, out, adv, lastop>>

TupleLoopDeref ==
    /\ impl = "Tuple" /\ pc = "deref"
    /\ \E o \in Tuple_deref(ranges, it[1]) : LoopStep(o, "deref", "inc")

TupleLoopInc ==
    /\ impl = "Tuple" /\ pc = "inc"
    /\ \E o \in Tuple_preinc(ranges, it[1]) : LoopStep(o, "inc", "test")

MultiLoopTest ==
    /\ impl = "Multi" /\ pc = "test"
    /\ pc' = IF Multi_neq(it[1], it[2]) THEN "deref" ELSE "done"
    /\ UNCHANGED <<ranges, impl, it, out, adv, lastop>>

MultiLoopDeref ==
    /\ impl = "Multi" /\ pc = "deref"
    /\ \E o \in Multi_deref(ranges, it[1]) : LoopStep(o, "deref", "inc")

MultiLoopInc ==
    /\ impl = "Multi" /\ pc = "inc"
    /\ \E o \in Multi_preinc(ranges, it[1]) : LoopStep(o, "inc", "test")

LoopNext ==
    \/ TupleLoopTest \/ TupleLoopDeref \/ TupleLoopInc
    \/ MultiLoopTest \/ MultiLoopDeref \/ MultiLoopInc

LoopSpec == LoopInit /\ [][LoopNext]_vars

----------------------------------------------------------------------------
(* Vocabulary of the properties. *)

IsPrefix(s, t) == Len(s) <= Len(t) /\ SubSeq(t, 1, Len(s)) = s

AllEmpty(rs) == \A i \in DOMAIN rs : rs[i].first = rs[i].last
AllNonEmpty(rs) == \A i \in DOMAIN rs : rs[i].first # rs[i].last

\* Stage index, current position and end position of a cursor.
StageOf(c) == IF impl = "Tuple" THEN c.I ELSE c.range_it
Cur(c) == IF impl = "Tuple" THEN c.first ELSE c.element_it
EndPos(c) == IF impl = "Tuple" THEN c.last ELSE ranges[c.range_it].last

EndCursor == IF impl = "Tuple" THEN Tuple_end(ranges) ELSE Multi_end(ranges)
BeginCursor == IF impl = "Tuple" THEN Tuple_begin(ranges) ELSE Multi_begin(ranges)

\* a != b as the program computes it.
Neq(a, b) == IF impl = "Tuple" THEN Tuple_neq(a, b) ELSE Multi_neq(a, b)
AtEnd(k) == ~Neq(it[k], EndCursor)

\* The process runs and every cursor designates a range of the chain.
Running == pc \notin {"aborted", "stray"}

RECURSIVE SizeFrom(_, _)
SizeFrom(rs, i) == IF i > last_stage(rs) THEN 0 ELSE StageSize(rs, i) + SizeFrom(rs, i + 1)
\* Number of elements at or after the position of cursor c.
Remaining(c) == (EndPos(c) - Cur(c)) + SizeFrom(ranges, StageOf(c) + 1)

----------------------------------------------------------------------------
(* Properties, checked under LoopSpec (the range-for loop) or Spec (any    *)
(* sequence of operations on two cursors).                                 *)

\* C1 (LoopSpec): whatever stages are empty, the loop emits the elements of
\* the chain in stage order, each once and nothing else: what it has emitted
\* is always a prefix of the concatenation, and all of it when the loop ends.
C1_LoopEmitsConcatenation ==
    /\ IsPrefix(out, Concat(ranges))
    /\ pc = "done" => out = Concat(ranges)

\* C2 (LoopSpec): when every stage is non-empty the loop is not killed, visits
\* the elements in stage and in-stage order, each once, and stops after
\* sum |stage_i| iterations.
C2_NonEmptyStagesLoop ==
    AllNonEmpty(ranges) =>
        /\ Running
        /\ IsPrefix(out, Concat(ranges))
        /\ pc = "done" => out = Concat(ranges) /\ adv[1] = Total(ranges)

\* C3 (Spec): begin() compares equal to end() iff every stage is empty.
C3_BeginEqualsEndIffAllEmpty ==
    ~Neq(BeginCursor, EndCursor) <=> AllEmpty(ranges)

\* C4 (LoopSpec): over [A, [], B] the loop ends having emitted A then B in
\* |A| + |B| iterations, as it does over [A, B].
C4_EmptyInteriorStageSkipped ==
    ( /\ NumStages(ranges) = 3
      /\ StageSize(ranges, 0) > 0 /\ StageSize(ranges, 1) = 0 /\ StageSize(ranges, 2) > 0
      /\ pc = "done" )
    => /\ out = StageElems(ranges, 0) \o StageElems(ranges, 2)
       /\ adv[1] = StageSize(ranges, 0) + StageSize(ranges, 2)

\* C5 (Spec): over [A, []] with A non-empty a cursor equals end() after
\* exactly |A| advances from begin().
C5_TrailingEmptyReachesEnd ==
    \A k \in Cursors :
        ( /\ NumStages(ranges) = 2
          /\ StageSize(ranges, 0) > 0 /\ StageSize(ranges, 1) = 0
          /\ pc = "free"
          /\ adv[k] = StageSize(ranges, 0) )
        => AtEnd(k)

\* C6 (Spec): a dereference of a cursor unequal to end() leaves the active
\* stage not exhausted and returns a real element of that stage.  (The last
\* stage is taken non-empty, so that a cursor unequal to end() has an element
\* at or after its position.)
C6_DerefReturnsRealElement ==
    (lastop.op = "deref" /\ pc = "free" /\ StageSize(ranges, last_stage(ranges)) > 0) =>
        LET c == it[lastop.k]
        IN  /\ Cur(c) # EndPos(c)
            /\ lastop.ref = <<Cur(c)>>
            /\ ranges[StageOf(c)].first <= Cur(c) /\ Cur(c) < ranges[StageOf(c)].last

\* C7 (Spec): every cursor advanced past the final element equals end().
C7_PastFinalElementIsEnd ==
    \A k \in Cursors :
        ( /\ pc = "free"
          /\ lastop.op = "inc" /\ lastop.k = k
          /\ Total(ranges) > 0
          /\ Remaining(it[k]) = 0 )
        => AtEnd(k)

\* C8 (Spec): two cursors of one chain (end() included) compare equal iff
\* their active stages have the same index, the same current position and
\* the same end position; cursors of different stages are never equal.
C8_EqualIffSameStageAndPositions ==
    pc = "free" =>
        \A a, b \in {it[1], it[2], EndCursor} :
            /\ ~Neq(a, b) <=> ( /\ StageOf(a) = StageOf(b)
                                /\ Cur(a) = Cur(b)
                                /\ EndPos(a) = EndPos(b) )
            /\ StageOf(a) # StageOf(b) => Neq(a, b)

\* Two exhausted cursors of different stages at the same address: unequal.
C8_Witness ==
    /\ pc = "free"
    /\ StageOf(it[1]) # StageOf(it[2])
    /\ Cur(it[1]) = Cur(it[2])
    /\ Cur(it[1]) = EndPos(it[1]) /\ Cur(it[2]) = EndPos(it[2])
    /\ Neq(it[1], it[2])
    /\ ~Neq(it[2], EndCursor)

\* C9 (LoopSpec): over the one-stage chain [S] the loop yields the elements of
\* S in S's order with exactly |S| advances, and begin() == end() when S is
\* empty.
C9_SingleStage ==
    NumStages(ranges) = 1 =>
        /\ Running
        /\ IsPrefix(out, StageElems(ranges, 0))
        /\ adv[1] <= StageSize(ranges, 0)
        /\ pc = "done" => out = StageElems(ranges, 0) /\ adv[1] = StageSize(ranges, 0)
        /\ StageSize(ranges, 0) = 0 => ~Neq(BeginCursor, EndCursor)

\* The loop over a one-stage chain of MaxLen elements has ended.
C9_Witness ==
    /\ NumStages(ranges) = 1
    /\ StageSize(ranges, 0) = MaxLen
    /\ pc = "done"
    /\ Len(out) = MaxLen
    /\ adv[1] = MaxLen

\* C10 (Spec): dereferencing a cursor twice in a row returns the same element
\* and leaves the cursor as the first dereference left it.  (The last stage is
\* taken non-empty, so that both dereferences have an element to return.)
C10_DerefTwiceSame ==
    [][ \A k \in Cursors :
          ( /\ StageSize(ranges, last_stage(ranges)) > 0
            /\ lastop.op = "deref" /\ lastop.k = k
            /\ lastop'.op = "deref" /\ lastop'.k = k
            /\ pc = "free" /\ pc' = "free" )
          => lastop'.ref = lastop.ref /\ it'[k] = it[k] ]_vars

\* C11 (Spec): an advance or dereference applied to one cursor leaves the other
\* cursor's state and the chain's stored ranges unchanged, under every
\* interleaving of operations on the two cursors.
C11_CursorsIndependent ==
    [][ /\ \A j \in Cursors : j # lastop'.k => it'[j] = it[j]
        /\ ranges' = ranges ]_vars

\* Both cursors have been advanced and cursor 1 is a stage ahead of cursor 2.
C11_Witness ==
    /\ pc = "free"
    /\ lastop.op = "inc" /\ lastop.k = 1
    /\ adv[2] > 0
    /\ StageOf(it[1]) > StageOf(it[2])

\* C12 (LoopSpec): an advance of a cursor that is at the last stage, exhausted,
\* leaves its stage index, current position and end position unchanged, and
\* the loop goes on to compare it with end().
C12_PinnedAtEnd ==
    [][ ( /\ pc = "inc"
          /\ StageOf(it[1]) = last_stage(ranges)
          /\ Cur(it[1]) = EndPos(it[1]) )
        => /\ pc' = "test"
           /\ StageOf(it'[1]) = StageOf(it[1])
           /\ Cur(it'[1]) = Cur(it[1])
           /\ EndPos(it'[1]) = EndPos(it[1]) ]_vars

\* C13 (CallSpec): a call of end() returns a cursor at stage N-1 whose current
\* position is stage N-1's stored end position, leaves the chain's stored
\* ranges as they were, and its result equals every cursor an earlier end()
\* returned, whatever was done to the other cursor in between.
C13_EndIsLastStageExhausted ==
    [][ /\ ranges' = ranges
        /\ lastop'.op = "end" =>
              LET c == it'[lastop'.k]
                  L == ranges[last_stage(ranges)].last
              IN  /\ StageOf(c) = last_stage(ranges)
                  /\ Cur(c) = L /\ EndPos(c) = L
                  /\ \A j \in Cursors :
                        (StageOf(it[j]) = last_stage(ranges) /\ Cur(it[j]) = L)
                        => ~Neq(c, it[j]) ]_vars

\* end() was called for slot 2 after cursor 1 had been advanced into another
\* stage; the last stage is not empty.
C13_Witness ==
    /\ lastop.op = "end" /\ lastop.k = 2
    /\ StageSize(ranges, last_stage(ranges)) > 0
    /\ adv[1] > 0 /\ StageOf(it[1]) > 0
    /\ StageOf(it[2]) = last_stage(ranges)
    /\ Cur(it[2]) = ranges[last_stage(ranges)].last

\* C14 (CallSpec): begin() returns a cursor at stage 0 holding stage 0's stored
\* (begin, end) positions, also when stage 0 is empty: it is not pre-advanced
\* to the first non-empty stage.
C14_BeginIsStageZero ==
    lastop.op \in {"begin", "none"} =>
        LET c == it[lastop.k]
        IN  /\ StageOf(c) = 0
            /\ Cur(c) = ranges[0].first
            /\ EndPos(c) = ranges[0].last

\* begin() was called again on a chain whose stage 0 is empty and whose stage 1
\* is not: the cursor is at stage 0, exhausted.
C14_Witness ==
    /\ lastop.op = "begin"
    /\ NumStages(ranges) > 1
    /\ StageSize(ranges, 0) = 0 /\ StageSize(ranges, 1) > 0
    /\ StageOf(it[lastop.k]) = 0
    /\ Cur(it[lastop.k]) = EndPos(it[lastop.k])

\* C15 (Spec): an advance does exactly one of two things.  If the position is
\* not the end position of the active stage it steps that position by one and
\* keeps the stage; if the stage is exhausted and is not the last one, the
\* cursor becomes a fresh cursor of the next stage holding that stage's stored
\* (begin, end), without a step, also when that stage is empty.  In both cases
\* the program goes on.
C15_AdvanceStepsOrPromotes ==
    [][ lastop'.op = "inc" =>
          LET k == lastop'.k
              c == it[k]
              d == it'[k]
              I == StageOf(c)
          IN  /\ pc' = "free"
              /\ Cur(c) # EndPos(c) =>
                    /\ StageOf(d) = I
                    /\ Cur(d) = Cur(c) + 1
                    /\ EndPos(d) = EndPos(c)
              /\ (Cur(c) = EndPos(c) /\ I < last_stage(ranges)) =>
                    /\ StageOf(d) = I + 1
                    /\ Cur(d) = ranges[I + 1].first
                    /\ EndPos(d) = ranges[I + 1].last ]_vars

\* C16 (CallSpec): every cursor's current position lies between the begin and
\* the end position of its stage's stored range, both inclusive, and its end
\* position is that stage's stored end position; so next_element never steps
\* a position that is the stage's end position.
C16_PositionWithinStage ==
    \A k \in Cursors :
        LET I == StageOf(it[k])
        IN  /\ I \in DOMAIN ranges
            /\ ranges[I].first <= Cur(it[k])
            /\ Cur(it[k]) <= ranges[I].last
            /\ EndPos(it[k]) = ranges[I].last

\* The last advance stepped cursor 1 onto the end position of a non-empty
\* stage 0 that is not the last stage.
C16_Witness ==
    /\ lastop.op = "inc" /\ lastop.k = 1
    /\ pc = "free"
    /\ NumStages(ranges) > 1
    /\ StageSize(ranges, 0) > 0
    /\ StageOf(it[1]) = 0
    /\ adv[1] = StageSize(ranges, 0)
    /\ Cur(it[1]) = EndPos(it[1])

\* The elements operator* can return for cursor k in the current state.
Designated(k) ==
    { o.ref : o \in { x \in (IF impl = "Tuple" THEN Tuple_deref(ranges, it[k])
                                               ELSE Multi_deref(ranges, it[k])) :
                        ~x.fault } }

\* C17 (Spec): dereference is transparent to advancing.  On a chain without
\* empty stages, two cursors that have taken the same number of advances from
\* begin() designate the same element, whatever dereferences were interleaved,
\* and a cursor equal to end() has taken exactly as many advances as the chain
\* has elements.
C17_DerefTransparentToAdvance ==
    (Running /\ AllNonEmpty(ranges)) =>
        /\ \A k \in Cursors : AtEnd(k) => adv[k] = Total(ranges)
        /\ (adv[1] = adv[2] /\ ~AtEnd(1) /\ ~AtEnd(2))
              => Designated(1) = Designated(2)

(***************************************************************************)
(* The two headers side by side: slot 1 holds the handler-based cursor of  *)
(* TupleIterator.h, slot 2 the pointer-based cursor of MultiIterator.h,    *)
(* both over the same chain and both driven by the same operations while   *)
(* both are unequal to their end().  out holds what the last operation     *)
(* gave in each of the two programs: <<[ref, fault], [ref, fault]>>.       *)
(***************************************************************************)
PairInit ==
    /\ ranges \in Chains
    /\ impl = "Both"
    /\ it = <<Tuple_begin(ranges), Multi_begin(ranges)>>
    /\ pc = "free"
    /\ out = <<>>
    /\ adv = [k \in Cursors |-> 0]
    /\ lastop = NoOp

\* Outcome t of the operation in the Tuple program, m in the Multi program.
PairApply(t, m, op) ==
    /\ it' = <<t.h, m.h>>
    /\ pc' = IF t.fault \/ m.fault THEN "aborted" ELSE pc
    /\ out' = <<[ref |-> t.ref, fault |-> t.fault], [ref |-> m.ref, fault |-> m.fault]>>
    /\ lastop' = [op |-> op, k |-> 1, ref |-> t.ref]
    /\ adv' = IF op = "inc"
              THEN <<adv[1] + (IF t.fault THEN 0 ELSE 1), adv[2] + (IF m.fault THEN 0 ELSE 1)>>
              ELSE adv
    /\ UNCHANGED <<ranges, impl>>

\* it != end() in both programs.
PairNotEnd == Tuple_neq(it[1], Tuple_end(ranges)) /\ Multi_neq(it[2], Multi_end(ranges))

PairInc ==
    /\ impl = "Both" /\ pc = "free"
    /\ PairNotEnd
    /\ \E t \in Tuple_preinc(ranges, it[1]), m \in Multi_preinc(ranges, it[2]) :
          PairApply(t, m, "inc")

PairDeref ==
    /\ impl = "Both" /\ pc = "free"
    /\ PairNotEnd
    /\ \E t \in Tuple_deref(ranges, it[1]), m \in Multi_deref(ranges, it[2]) :
          PairApply(t, m, "deref")

PairNext == PairInc \/ PairDeref

PairSpec == PairInit /\ [][PairNext]_vars

\* C18 (PairSpec): driven by the same operations up to the first state equal
\* to end(), the cursor of MultiIterator.h and the cursor of TupleIterator.h
\* stay at the same stage index and the same current position, compare with
\* end() alike, and every operation gives the same result in both programs:
\* the same element, and one program is not killed where the other goes on.
C18_MultiMatchesTuple ==
    /\ it[1].I = it[2].range_it
    /\ it[1].first = it[2].element_it
    /\ Tuple_neq(it[1], Tuple_end(ranges)) = Multi_neq(it[2], Multi_end(ranges))
    /\ out # <<>> => out[1] = out[2]

\* iterator::operator-> of TupleIterator.h: get_handler().get_element(), no
\* test of done() and no stage transition.
Tuple_arrow(h) ==
    { IF v = "dispatch" THEN Ok(h, <<get_element(h)>>) ELSE Fault(h) :
        v \in VirtualCall(h) }

\* iterator::operator-> of MultiIterator.h: returns _element_it as it is.
Multi_arrow(rs, c) == {Ok(c, <<c.element_it>>)}

\* The elements operator-> can designate for cursor k in the current state.
Arrow(k) ==
    { o.ref : o \in { x \in (IF impl = "Tuple" THEN Tuple_arrow(it[k])
                                               ELSE Multi_arrow(ranges, it[k])) :
                        ~x.fault } }

\* C19 (Spec): for every cursor unequal to end(), operator-> designates the
\* element operator* returns, also when the active stage is exhausted and a
\* following stage still holds elements.
C19_ArrowDesignatesDerefElement ==
    \A k \in Cursors :
        (Running /\ ~AtEnd(k) /\ Remaining(it[k]) > 0)
            => Arrow(k) = Designated(k)

\* C20 (Spec): along any sequence of advances and dereferences from begin(),
\* applied only to cursors unequal to end(), the active stage index never
\* decreases, grows by at most one per operation and never exceeds N-1 (in
\* MultiIterator.h: the range pointer stays inside the array of N ranges).
C20_StageIndexMonotoneBounded ==
    [][ \A k \in Cursors :
           /\ StageOf(it'[k]) \in {StageOf(it[k]), StageOf(it[k]) + 1}
           /\ StageOf(it'[k]) <= last_stage(ranges) ]_vars

\* Cursor 1 has been taken through every stage of a three-stage chain, once by
\* an advance and once by a dereference; the last operation was a transition.
C20_Witness ==
    /\ pc = "free"
    /\ NumStages(ranges) = 3
    /\ StageOf(it[1]) = 2
    /\ lastop.k = 1 /\ lastop.op = "deref"
    /\ adv[1] = StageSize(ranges, 0) + 1
    /\ Cur(it[1]) = ranges[2].first

====
